---- MODULE Spec2Model ----
(***************************************************************************)
(* Reconciliation of scheduled tasks (core/tasks.py, sync_scheduled_tasks) *)
(* as a state machine: the cycle guard, the planner, the transport connect *)
(* and the concurrently dispatched items, each item advancing from one     *)
(* await of _handle_task_on_agent to the next.                             *)
(***************************************************************************)
EXTENDS Naturals, Sequences, FiniteSets

(***************************************************************************)
(* The fleet: two agents, one policy task shared by both agents and one    *)
(* onboarding task assigned directly to the first agent; two celery        *)
(* workers.                                                                *)
(***************************************************************************)
Agents == {"a1", "a2"}

Tasks == {"t1", "t2"}

Workers == {"w1", "w2"}

AgentOrder == <<"a1", "a2">>

\* task.policy: t1 is a policy task (task.agent is None), t2 is not.
TaskPolicy(t) == t = "t1"

\* task.agent of a task assigned directly to an agent.
TaskAgent(t) == "a1"

\* agent.get_tasks_with_policies(): the agent's own tasks, then the tasks
\* of the policy applied to it, among the Task records that exist.
TasksWithPolicies(a, ts) ==
  SelectSeq(<<"t2", "t1">>,
            LAMBDA t : t \in ts /\ (TaskPolicy(t) \/ TaskAgent(t) = a))

Pairs == {<<"a1", "t1">>, <<"a1", "t2">>, <<"a2", "t1">>}

\* TaskSyncStatus
INITIAL == "initial"
SYNCED == "synced"
NOT_SYNCED == "notsynced"
PENDING_DELETION == "pendingdeletion"

SyncStatuses == {INITIAL, SYNCED, NOT_SYNCED, PENDING_DELETION}

\* The sync_status of a TaskResult created without one.
DefaultSyncStatus == INITIAL

\* TaskType
ONBOARDING == "onboarding"
SCHEDULED == "scheduled"

AGENT_STATUS_ONLINE == "online"
AGENT_STATUS_OFFLINE == "offline"

(***************************************************************************)
(* Version strings are sequences of characters: a digit is its value and   *)
(* the dot is Dot, so that the order of the codes is the order of the      *)
(* characters ('.' sorts before '0').                                      *)
(***************************************************************************)
Dot == 10

IsDot(c) == c = Dot

V159 == <<1, Dot, 5, Dot, 9>>
V160 == <<1, Dot, 6, Dot, 0>>
V1100 == <<1, Dot, 1, 0, Dot, 0>>
V259 == <<2, Dot, 5, Dot, 9>>
V260 == <<2, Dot, 6, Dot, 0>>

\* pyver.parse: the release segments of a version string as integers.
RECURSIVE ParseFrom(_, _, _, _)
ParseFrom(s, i, cur, acc) ==
  IF i > Len(s) THEN Append(acc, cur)
  ELSE IF IsDot(s[i]) THEN ParseFrom(s, i + 1, 0, Append(acc, cur))
  ELSE ParseFrom(s, i + 1, cur * 10 + s[i], acc)

Parse(s) == ParseFrom(s, 1, 0, <<>>)

Seg(v, i) == IF i <= Len(v) THEN v[i] ELSE 0

\* Version.__lt__: release tuples compared segment by segment, the shorter
\* one padded with zeros.
RECURSIVE TupleLess(_, _, _)
TupleLess(v, w, i) ==
  IF i > Len(v) /\ i > Len(w) THEN FALSE
  ELSE IF Seg(v, i) < Seg(w, i) THEN TRUE
  ELSE IF Seg(v, i) > Seg(w, i) THEN FALSE
  ELSE TupleLess(v, w, i + 1)

\* str.__lt__ on the version strings: character by character.
RECURSIVE LexLess(_, _, _)
LexLess(s, t, i) ==
  IF i > Len(t) THEN FALSE
  ELSE IF i > Len(s) THEN TRUE
  ELSE IF IsDot(s[i]) /\ ~IsDot(t[i]) THEN TRUE
  ELSE IF ~IsDot(s[i]) /\ IsDot(t[i]) THEN FALSE
  ELSE IF s[i] < t[i] THEN TRUE
  ELSE IF s[i] > t[i] THEN FALSE
  ELSE LexLess(s, t, i + 1)

\* The comparison with the version strings compared as strings.
VerLessLexical(s, t) == LexLess(s, t, 1)

\* pyver.parse(s) < pyver.parse(t)
VerLess(s, t) == TupleLess(Parse(s), Parse(t), 1)

VerGE(s, t) == ~VerLess(s, t)

(***************************************************************************)
(* The remote call's responses (a_nats_cmd returns a string): the literal  *)
(* "ok", the error string of a call that failed or timed out, and the      *)
(* Windows error of a task that is not there.                              *)
(***************************************************************************)
RespOk == "ok"
RespTimeout == "timeout"
RespNotFound == "Error: The system cannot find the file specified"

Resps == {RespOk, RespTimeout, RespNotFound}

\* What an agent answers to schedtask (create, modify) and to delschedtask.
RespsTo(op) == IF op = "delete" THEN Resps ELSE {RespOk, RespTimeout}

\* "The system cannot find the file specified" in r
NotFoundIn(r) == r = RespNotFound

(***************************************************************************)
(* The agents the model starts from. The first agent is online, on Windows *)
(* at 1.5.9, 2.5.9 or 2.6.0 or on POSIX; the second is on Windows, online   *)
(* at 1.10.0 or offline.                                                   *)
(***************************************************************************)
Profile(v, st, px) == [version |-> v, status |-> st, is_posix |-> px]

AgentProfiles(a) ==
  IF a = "a1"
  THEN {Profile(v, AGENT_STATUS_ONLINE, FALSE) : v \in {V159, V259, V260}}
       \cup {Profile(V260, AGENT_STATUS_ONLINE, TRUE)}
  ELSE {Profile(V1100, AGENT_STATUS_ONLINE, FALSE),
        Profile(V260, AGENT_STATUS_OFFLINE, FALSE)}

\* The task types the model starts from: the policy task is an ordinary
\* task, the first agent's own task is an onboarding task.
TaskTypes(t) == IF t = "t1" THEN {SCHEDULED} ELSE {ONBOARDING}

NoWorker == "free"

\* What an invocation gave its caller: a string, or the exception it raised.
NoRet == [kind |-> "none", owner |-> "-"]

\* The return of line 174 with line 319's value.
StillRunningOk(w) == [kind |-> "ok", owner |-> "-"]

\* f"{self.app.oid} still running"
StillRunning(w) == [kind |-> "still running", owner |-> w]

RetOk == [kind |-> "ok", owner |-> "-"]

RetRaised == [kind |-> "raised", owner |-> "-"]

VARIABLES
  agent,     \* Agent rows: version, status, is_posix (never written here)
  taskType,  \* AutomatedTask.task_type of each task
  defn,      \* the definition of each task, which its payload is generated from
  tasks,     \* the AutomatedTask rows that exist
  results,   \* TaskResult rows of each (agent, task): their sync_status
  lock,      \* holder of SYNC_SCHED_TASK_LOCK, or NoWorker
  wpc,       \* where each invocation of sync_scheduled_tasks is
  ret,       \* what the last invocation of each worker returned
  items,     \* actions of each invocation, with each coroutine's progress
  calls,     \* remote calls issued by the invocation, per (agent, task)
  tries,     \* guard acquisitions attempted by the invocation
  touched,   \* whether the invocation read or wrote Task or TaskResult
  opened,    \* nats.connect of the invocation: "no", "yes" or "failed"
  snap,      \* the Task and TaskResult rows when the invocation began
  opWrote    \* the sync_status an operator wrote to a pair since the last plan

vars == <<agent, taskType, defn, tasks, results, lock, wpc, ret, items,
          calls, tries, touched, opened, snap, opWrote>>

Store == [tasks |-> tasks, results |-> results]

NoStore == [tasks |-> {}, results |-> [p \in Pairs |-> <<>>]]

NoCalls == [p \in Pairs |-> 0]

\* The definitions a task may have.
Definitions == {"d1", "d2"}

NoWrites == [p \in Pairs |-> "none"]

Init ==
  /\ agent \in {f \in [Agents -> UNION {AgentProfiles(a) : a \in Agents}] :
                  \A a \in Agents : f[a] \in AgentProfiles(a)}
  /\ taskType \in {f \in [Tasks -> {SCHEDULED, ONBOARDING}] :
                     \A t \in Tasks : f[t] \in TaskTypes(t)}
  /\ defn = [t \in Tasks |-> "d1"]
  /\ tasks = Tasks
  /\ results \in [Pairs -> {<<>>} \cup {<<s>> : s \in SyncStatuses}]
  /\ lock = NoWorker
  /\ wpc = [w \in Workers |-> "idle"]
  /\ ret = [w \in Workers |-> NoRet]
  /\ items = [w \in Workers |-> <<>>]
  /\ calls = [w \in Workers |-> NoCalls]
  /\ tries = [w \in Workers |-> 0]
  /\ touched = [w \in Workers |-> FALSE]
  /\ opened = [w \in Workers |-> "no"]
  /\ snap = [w \in Workers |-> NoStore]
  /\ opWrote = NoWrites

(***************************************************************************)
(* The planner (lines 176-238).                                            *)
(***************************************************************************)
\* The agent filter of line 179-183.
Eligible(a) ==
  /\ ~agent[a].is_posix
  /\ VerGE(agent[a].version, V160)
  /\ agent[a].status = AGENT_STATUS_ONLINE

\* Lines 190-193: onboarding tasks require agent >= 2.6.0.
OnboardingSkipped(a, t) ==
  taskType[t] = ONBOARDING /\ VerLess(agent[a].version, V260)

\* agent_obj of line 187.
AgentObj(a, t) == IF TaskPolicy(t) THEN a ELSE TaskAgent(t)

\* task.task_result taken from the first agent's TaskResult of the task.
TaskResultOfFirst(a, t, rs) ==
  IF rs[<<AgentOrder[1], t>>] = <<>> THEN "none" ELSE rs[<<AgentOrder[1], t>>][1]

\* task.task_result: the agent's TaskResult of the task, or {} (falsy).
TaskResultOf(a, t, rs) == IF rs[<<a, t>>] = <<>> THEN "none" ELSE rs[<<a, t>>][1]

\* The classification with the last branch taken for every other status.
ClassifyElseModify(tr) ==
  IF tr = "none" \/ tr = INITIAL THEN "create"
  ELSE IF tr = PENDING_DELETION THEN "delete"
  ELSE "modify"

\* The branch of lines 196-238 taken for a task_result; "noop" when none is.
Classify(tr) ==
  IF tr = "none" \/ tr = INITIAL THEN "create"
  ELSE IF tr = PENDING_DELETION THEN "delete"
  ELSE IF tr = NOT_SYNCED THEN "modify"
  ELSE "noop"

\* task.generate_nats_task_payload(): the descriptor of the task's definition.
GeneratePayload(t) == defn[t]

\* The payload of an item: lines 205 and 234, and the {} of line 220.
PayloadOf(op, t) == IF op = "delete" THEN "{}" ELSE GeneratePayload(t)

NewItem(op, a, t) ==
  [op |-> op, task |-> t, agent |-> AgentObj(a, t),
   payload |-> PayloadOf(op, t), pc |-> "getTask", resp |-> "none", h |-> 0]

\* The inner loop of lines 185-238 for one agent.
RECURSIVE PlanTasks(_, _, _, _, _)
PlanTasks(a, ts, i, rs, acc) ==
  IF i > Len(ts) THEN acc
  ELSE LET t == ts[i]
           op == Classify(TaskResultOf(a, t, rs))
       IN  IF OnboardingSkipped(a, t) \/ op = "noop"
           THEN PlanTasks(a, ts, i + 1, rs, acc)
           ELSE PlanTasks(a, ts, i + 1, rs, Append(acc, NewItem(op, a, t)))

\* The outer loop of lines 178-238.
RECURSIVE PlanAgents(_, _, _, _)
PlanAgents(i, ts, rs, acc) ==
  IF i > Len(AgentOrder) THEN acc
  ELSE LET a == AgentOrder[i]
       IN  IF Eligible(a)
           THEN PlanAgents(i + 1, ts, rs,
                           PlanTasks(a, TasksWithPolicies(a, ts), 1, rs, acc))
           ELSE PlanAgents(i + 1, ts, rs, acc)

\* actions, as built from the Task and TaskResult rows ts and rs.
Plan(ts, rs) == PlanAgents(1, ts, rs, <<>>)

(***************************************************************************)
(* The cycle guard: redis_lock(SYNC_SCHED_TASK_LOCK, self.app.oid).        *)
(***************************************************************************)
\* try_acquire(name, owner): whether the lock was free.
TryAcquire(w) == lock = NoWorker

\* The lock after try_acquire.
LockAfterAcquire(w) == IF TryAcquire(w) THEN w ELSE lock

\* release(name, owner) at the end of the with block: only the holder's.
LockAfterRelease(w) == IF lock = w THEN NoWorker ELSE lock

\* The check of line 173 left out: the invocation goes on in any case.
ProceedsAlways(acquired) == TRUE

\* Line 173: the invocation goes on when the guard was acquired.
Proceeds(acquired) == acquired

Invocable(w) == wpc[w] \in {"idle", "returned"}

\* The record f of the invocations when w begins one with value x: what is
\* kept of the invocations that have returned is dropped.
Begin(f, w, x, blank) ==
  [v \in Workers |-> IF v = w THEN x
                     ELSE IF wpc[v] = "returned" THEN blank ELSE f[v]]

StartInvocation(w) ==
  /\ tries' = Begin(tries, w, 1, 0)
  /\ touched' = Begin(touched, w, FALSE, FALSE)
  /\ opened' = Begin(opened, w, "no", "no")
  /\ calls' = Begin(calls, w, NoCalls, NoCalls)
  /\ items' = Begin(items, w, <<>>, <<>>)
  /\ snap' = Begin(snap, w, Store, NoStore)

\* Lines 171-173, guard acquired: the invocation enters the cycle.
InvokeAcquired(w) ==
  /\ Invocable(w)
  /\ Proceeds(TryAcquire(w))
  /\ lock' = LockAfterAcquire(w)
  /\ wpc' = Begin(wpc, w, "planning", "idle")
  /\ ret' = Begin(ret, w, NoRet, NoRet)
  /\ StartInvocation(w)
  /\ UNCHANGED <<agent, taskType, defn, opWrote,
                 tasks, results>>

\* Lines 171-174, guard held by another: return "<oid> still running".
InvokeContended(w) ==
  /\ Invocable(w)
  /\ ~Proceeds(TryAcquire(w))
  /\ lock' = LockAfterRelease(w)
  /\ wpc' = Begin(wpc, w, "returned", "idle")
  /\ ret' = Begin(ret, w, StillRunning(w), NoRet)
  /\ StartInvocation(w)
  /\ UNCHANGED <<agent, taskType, defn, opWrote,
                 tasks, results>>

\* Lines 176-238: build actions from the agents and their tasks.
PlanCycle(w) ==
  /\ wpc[w] = "planning"
  /\ items' = [items EXCEPT ![w] = Plan(tasks, results)]
  /\ touched' = [touched EXCEPT ![w] = TRUE]
  /\ wpc' = [wpc EXCEPT ![w] = "connecting"]
  /\ opWrote' = NoWrites
  /\ UNCHANGED <<agent, taskType, defn, tasks, results, lock, ret, calls, tries,
                 opened, snap>>

\* Lines 304-306, nats.connect succeeds; line 312-313 starts every coroutine.
ConnectOk(w) ==
  /\ wpc[w] = "connecting"
  /\ opened' = [opened EXCEPT ![w] = "yes"]
  /\ wpc' = [wpc EXCEPT ![w] = "dispatching"]
  /\ UNCHANGED <<agent, taskType, defn, opWrote,
                 tasks, results, lock, ret, items, calls,
                 tries, touched, snap>>

\* The connect failure with the return of line 310 left out: the coroutines
\* are started all the same.
ConnectFailDispatches(w) ==
  /\ wpc[w] = "connecting"
  /\ opened' = [opened EXCEPT ![w] = "failed"]
  /\ wpc' = [wpc EXCEPT ![w] = "dispatching"]
  /\ UNCHANGED <<agent, taskType, defn, opWrote,
                 tasks, results, lock, ret, items, calls,
                 tries, touched, snap>>

\* Lines 307-310 and 318-319: nats.connect raises, _run returns str(e), which
\* asyncio.run's caller drops; the task returns "ok" and the guard is released.
ConnectFail(w) ==
  /\ wpc[w] = "connecting"
  /\ opened' = [opened EXCEPT ![w] = "failed"]
  /\ wpc' = [wpc EXCEPT ![w] = "returned"]
  /\ ret' = [ret EXCEPT ![w] = RetOk]
  /\ lock' = LockAfterRelease(w)
  /\ UNCHANGED <<agent, taskType, defn, opWrote,
                 tasks, results, items, calls, tries,
                 touched, snap>>

(***************************************************************************)
(* The dispatcher: _handle_task_on_agent (lines 240-301), one step per     *)
(* await. An item's pc names the await it is suspended at.                 *)
(***************************************************************************)
ItemIdx(w) == 1..Len(items[w])

PairOf(it) == <<it.agent, it.task>>

Running(w, i) == wpc[w] = "dispatching" /\ i \in ItemIdx(w)

SetItem(w, i, it) == items' = [items EXCEPT ![w][i] = it]

\* The remote call is issued: a_nats_cmd of line 264 or 287 is awaited.
IssueCall(w, it) ==
  calls' = [calls EXCEPT ![w][PairOf(it)] = calls[w][PairOf(it)] + 1]

\* Line 251: AutomatedTask.objects.aget(id=task_id); DoesNotExist is not caught.
GetTask(w, i) ==
  LET it == items[w][i] IN
  /\ Running(w, i)
  /\ it.pc = "getTask"
  /\ SetItem(w, i, [it EXCEPT !.pc = IF it.task \in tasks THEN "getResult"
                                     ELSE "raised"])
  /\ UNCHANGED <<agent, taskType, defn, opWrote,
                 tasks, results, lock, wpc, ret, calls,
                 tries, touched, opened, snap>>

\* The fetch of lines 252-254 left out: the coroutine goes to acreate whether
\* the pair has a row or not.
GetResultNoFetch(w, i) ==
  LET it == items[w][i] IN
  /\ Running(w, i)
  /\ it.pc = "getResult"
  /\ SetItem(w, i, [it EXCEPT !.pc = "createResult"])
  /\ UNCHANGED <<agent, taskType, defn, opWrote, tasks, results, lock, wpc,
                 ret, calls, tries, touched, opened, snap>>

\* Lines 252-254: TaskResult.objects.aget(agent=agent, task=task); with one row
\* the coroutine goes on to the remote call, with none to acreate, and
\* MultipleObjectsReturned is not caught.
GetResult(w, i) ==
  LET it == items[w][i]
      n == Len(results[PairOf(it)])
  IN
  /\ Running(w, i)
  /\ it.pc = "getResult"
  /\ IF n = 1
     THEN SetItem(w, i, [it EXCEPT !.pc = "call", !.h = 1]) /\ IssueCall(w, it)
     ELSE /\ SetItem(w, i, [it EXCEPT !.pc = IF n = 0 THEN "createResult"
                                             ELSE "raised"])
          /\ UNCHANGED calls
  /\ UNCHANGED <<agent, taskType, defn, opWrote,
                 tasks, results, lock, wpc, ret, tries,
                 touched, opened, snap>>

\* Line 255: TaskResult.objects.acreate(agent=agent, task=task): a new row with
\* the default sync_status; the insert fails when the Task row is gone.
CreateResult(w, i) ==
  LET it == items[w][i]
      p == PairOf(it)
  IN
  /\ Running(w, i)
  /\ it.pc = "createResult"
  /\ IF it.task \in tasks
     THEN /\ results' = [results EXCEPT ![p] = Append(results[p], DefaultSyncStatus)]
          /\ SetItem(w, i, [it EXCEPT !.pc = "call", !.h = Len(results[p]) + 1])
          /\ IssueCall(w, it)
     ELSE /\ SetItem(w, i, [it EXCEPT !.pc = "raised"])
          /\ UNCHANGED <<results, calls>>
  /\ UNCHANGED <<agent, taskType, defn, opWrote,
                 tasks, lock, wpc, ret, tries, touched,
                 opened, snap>>

\* The sync_status set to SYNCED whatever the response.
StatusAfterSynced(op, r) == SYNCED

\* Lines 265-275: the sync_status set on task_result after a create or modify.
StatusAfter(op, r) ==
  IF r # RespOk
  THEN IF op = "create" THEN INITIAL ELSE NOT_SYNCED
  ELSE SYNCED

\* task_result.sync_status as set before asave: lines 265-275, and line 290.
MemStatus(it) ==
  IF it.op = "delete" THEN PENDING_DELETION ELSE StatusAfter(it.op, it.resp)

\* Line 289: the delete failed (and the task is still on the agent).
DeleteFailed(r) == r # RespOk /\ ~NotFoundIn(r)

\* Lines 264-275 and 287-290: the remote call returns r; the coroutine sets
\* task_result.sync_status and reaches asave or task.adelete().
Respond(w, i, r) ==
  LET it == items[w][i] IN
  /\ Running(w, i)
  /\ it.pc = "call"
  /\ r \in RespsTo(it.op)
  /\ SetItem(w, i,
       IF it.op \in {"create", "modify"}
       THEN [it EXCEPT !.pc = "save", !.resp = r]
       ELSE IF DeleteFailed(r)
       THEN [it EXCEPT !.pc = "save", !.resp = r]
       ELSE [it EXCEPT !.pc = "delete", !.resp = r])
  /\ UNCHANGED <<agent, taskType, defn, opWrote,
                 tasks, results, lock, wpc, ret, calls,
                 tries, touched, opened, snap>>

\* The row task_result stands for is still in the table.
RowExists(it) == it.h <= Len(results[PairOf(it)])

\* Lines 280 and 293: task_result.asave(update_fields=["sync_status"]) updates
\* the row.
SaveLands(w, i) ==
  LET it == items[w][i] IN
  /\ Running(w, i)
  /\ it.pc = "save"
  /\ RowExists(it)
  /\ results' = [results EXCEPT ![PairOf(it)][it.h] = MemStatus(it)]
  /\ SetItem(w, i, [it EXCEPT !.pc = "done"])
  /\ UNCHANGED <<agent, taskType, defn, opWrote,
                 tasks, lock, wpc, ret, calls, tries,
                 touched, opened, snap>>

\* Line 292: DatabaseError is suppressed around the asave of a failed delete
\* only; line 280 lets it out.
Suppressed(op) == op = "delete"

\* Lines 280 and 293: asave raises DatabaseError (the row is gone, or the
\* store fails) and nothing is written.
SaveError(w, i) ==
  LET it == items[w][i] IN
  /\ Running(w, i)
  /\ it.pc = "save"
  /\ SetItem(w, i, [it EXCEPT !.pc = IF Suppressed(it.op) THEN "done"
                                     ELSE "raised"])
  /\ UNCHANGED <<agent, taskType, defn, opWrote,
                 tasks, results, lock, wpc, ret, calls,
                 tries, touched, opened, snap>>

\* Line 300: task.adelete() removes the Task row and, with it, every
\* TaskResult row of the task.
DeleteTask(w, i) ==
  LET it == items[w][i] IN
  /\ Running(w, i)
  /\ it.pc = "delete"
  /\ tasks' = tasks \ {it.task}
  /\ results' = [p \in Pairs |-> IF p[2] = it.task THEN <<>> ELSE results[p]]
  /\ SetItem(w, i, [it EXCEPT !.pc = "done"])
  /\ UNCHANGED <<agent, taskType, defn, opWrote,
                 lock, wpc, ret, calls, tries, touched,
                 opened, snap>>

Settled(it) == it.pc \in {"done", "raised", "cancelled"}

\* Lines 313-319: every coroutine returned; flush, close, return "ok" and
\* leave the with block.
Finish(w) ==
  /\ wpc[w] = "dispatching"
  /\ \A i \in ItemIdx(w) : items[w][i].pc = "done"
  /\ wpc' = [wpc EXCEPT ![w] = "returned"]
  /\ ret' = [ret EXCEPT ![w] = RetOk]
  /\ lock' = LockAfterRelease(w)
  /\ UNCHANGED <<agent, taskType, defn, opWrote,
                 tasks, results, items, calls, tries,
                 touched, opened, snap>>

\* The abort with the guard released only on the way of line 319.
AbortKeepsGuard(w) ==
  /\ wpc[w] = "dispatching"
  /\ \E i \in ItemIdx(w) : items[w][i].pc = "raised"
  /\ items' = [items EXCEPT ![w] =
       [i \in ItemIdx(w) |->
          IF items[w][i].pc \in {"done", "raised", "cancelled"} THEN items[w][i]
          ELSE [items[w][i] EXCEPT !.pc = "cancelled", !.h = 0]]]
  /\ wpc' = [wpc EXCEPT ![w] = "returned"]
  /\ ret' = [ret EXCEPT ![w] = RetRaised]
  /\ UNCHANGED <<agent, taskType, defn, opWrote,
                 tasks, results, lock, calls, tries, touched,
                 opened, snap>>

\* Lines 313 and 318: gather raises the first exception of a coroutine out of
\* _run; asyncio.run cancels the coroutines still suspended and raises it out
\* of the with block.
Abort(w) ==
  /\ wpc[w] = "dispatching"
  /\ \E i \in ItemIdx(w) : items[w][i].pc = "raised"
  /\ items' = [items EXCEPT ![w] =
       [i \in ItemIdx(w) |->
          IF Settled(items[w][i]) THEN items[w][i]
          ELSE [items[w][i] EXCEPT !.pc = "cancelled", !.h = 0]]]
  /\ wpc' = [wpc EXCEPT ![w] = "returned"]
  /\ ret' = [ret EXCEPT ![w] = RetRaised]
  /\ lock' = LockAfterRelease(w)
  /\ UNCHANGED <<agent, taskType, defn, opWrote,
                 tasks, results, calls, tries, touched,
                 opened, snap>>

(***************************************************************************)
(* The operators, who edit tasks and request their deletion through the    *)
(* management API while cycles run.                                        *)
(***************************************************************************)
PairsOf(t) == {p \in Pairs : p[2] = t}

\* The rows with every sync_status in from set to status to.
MarkRows(rows, from, to) ==
  [i \in 1..Len(rows) |-> IF rows[i] \in from THEN to ELSE rows[i]]

\* The operator's write of status to on the rows of task t that are in from:
\* the rows, and the record of the write for the pairs that have such a row.
OperatorMarks(t, from, to) ==
  LET hit == {p \in PairsOf(t) : \E i \in 1..Len(results[p]) : results[p][i] \in from}
  IN  /\ results' = [p \in Pairs |->
                       IF p \in hit THEN MarkRows(results[p], from, to)
                       ELSE results[p]]
      /\ opWrote' = [p \in Pairs |-> IF p \in hit THEN to ELSE opWrote[p]]

\* An operator edits task t: its definition changes and its TaskResults that
\* were synced, or waiting for a modify, are marked NOT_SYNCED.
OperatorEdit(t) ==
  /\ t \in tasks
  /\ \E d \in Definitions \ {defn[t]} : defn' = [defn EXCEPT ![t] = d]
  /\ OperatorMarks(t, {SYNCED, NOT_SYNCED}, NOT_SYNCED)
  /\ UNCHANGED <<agent, taskType, tasks, lock, wpc, ret, items, calls, tries,
                 touched, opened, snap>>

\* An operator requests the deletion of task t: its TaskResults are marked
\* PENDING_DELETION.
OperatorDelete(t) ==
  /\ t \in tasks
  /\ \E p \in PairsOf(t) : \E i \in 1..Len(results[p]) :
       results[p][i] # PENDING_DELETION
  /\ OperatorMarks(t, SyncStatuses, PENDING_DELETION)
  /\ UNCHANGED <<agent, taskType, defn, tasks, lock, wpc, ret, items, calls,
                 tries, touched, opened, snap>>

Next ==
  \/ \E w \in Workers : InvokeAcquired(w)
  \/ \E w \in Workers : InvokeContended(w)
  \/ \E w \in Workers : PlanCycle(w)
  \/ \E w \in Workers : ConnectOk(w)
  \/ \E w \in Workers : ConnectFail(w)
  \/ \E w \in Workers : \E i \in ItemIdx(w) : GetTask(w, i)
  \/ \E w \in Workers : \E i \in ItemIdx(w) : GetResult(w, i)
  \/ \E w \in Workers : \E i \in ItemIdx(w) : CreateResult(w, i)
  \/ \E w \in Workers : \E i \in ItemIdx(w) : \E r \in Resps : Respond(w, i, r)
  \/ \E w \in Workers : \E i \in ItemIdx(w) : SaveLands(w, i)
  \/ \E w \in Workers : \E i \in ItemIdx(w) : SaveError(w, i)
  \/ \E w \in Workers : \E i \in ItemIdx(w) : DeleteTask(w, i)
  \/ \E w \in Workers : Finish(w)
  \/ \E w \in Workers : Abort(w)

Spec == Init /\ [][Next]_vars

\* A step of w's cycle: of its planner, its connect, its coroutines or its
\* return.
CycleStep(w) ==
  \/ PlanCycle(w)
  \/ ConnectOk(w)
  \/ ConnectFail(w)
  \/ \E i \in ItemIdx(w) :
       \/ GetTask(w, i)
       \/ GetResult(w, i)
       \/ CreateResult(w, i)
       \/ \E r \in Resps : Respond(w, i, r)
       \/ SaveLands(w, i)
       \/ SaveError(w, i)
       \/ DeleteTask(w, i)
  \/ Finish(w)
  \/ Abort(w)

\* The beat scheduler's invocations on one worker, with the operators at work.
CycleOf(w) ==
  \/ InvokeAcquired(w)
  \/ CycleStep(w)

NextOp ==
  \/ CycleOf("w1")
  \/ \E t \in Tasks : OperatorEdit(t)
  \/ \E t \in Tasks : OperatorDelete(t)

\* The policy task alone, on two eligible agents, each with the task synced
\* or not yet created; every other status is an operator's write away.
InitOp ==
  /\ agent = [a \in Agents |->
               IF a = "a1" THEN Profile(V260, AGENT_STATUS_ONLINE, FALSE)
               ELSE Profile(V1100, AGENT_STATUS_ONLINE, FALSE)]
  /\ taskType = [t \in Tasks |-> IF t = "t1" THEN SCHEDULED ELSE ONBOARDING]
  /\ defn = [t \in Tasks |-> "d1"]
  /\ tasks = {"t1"}
  /\ results \in {f \in [Pairs -> {<<>>, <<SYNCED>>}] : f[<<"a1", "t2">>] = <<>>}
  /\ lock = NoWorker
  /\ wpc = [w \in Workers |-> "idle"]
  /\ ret = [w \in Workers |-> NoRet]
  /\ items = [w \in Workers |-> <<>>]
  /\ calls = [w \in Workers |-> NoCalls]
  /\ tries = [w \in Workers |-> 0]
  /\ touched = [w \in Workers |-> FALSE]
  /\ opened = [w \in Workers |-> "no"]
  /\ snap = [w \in Workers |-> NoStore]
  /\ opWrote = NoWrites

SpecOp == InitOp /\ [][NextOp]_vars

\* The worker runs the task it has begun and the event loop the coroutines
\* that are ready; a remote call returns within its timeout of 10 seconds.
FairSpec == Spec /\ \A w \in Workers : WF_vars(CycleStep(w))

(***************************************************************************)
(* The cycles when the transport connects, every remote call answers "ok"  *)
(* and the store takes every write to a row that exists: the invocations   *)
(* recur (the beat schedule), and each cycle runs on.                      *)
(***************************************************************************)
\* Lines 280 and 293: asave of a row that a task.adelete() has removed.
SaveGone(w, i) == SaveError(w, i) /\ ~RowExists(items[w][i])

LiveStep(w) ==
  \/ PlanCycle(w)
  \/ ConnectOk(w)
  \/ \E i \in ItemIdx(w) :
       \/ GetTask(w, i)
       \/ GetResult(w, i)
       \/ CreateResult(w, i)
       \/ Respond(w, i, RespOk)
       \/ SaveLands(w, i)
       \/ SaveGone(w, i)
       \/ DeleteTask(w, i)
  \/ Finish(w)
  \/ Abort(w)

LiveNext ==
  \/ \E w \in Workers : InvokeAcquired(w)
  \/ \E w \in Workers : InvokeContended(w)
  \/ \E w \in Workers : LiveStep(w)

LiveSpec ==
  /\ Init
  /\ [][LiveNext]_vars
  /\ \A w \in Workers : WF_vars(LiveStep(w))
  /\ WF_vars(\E w \in Workers : InvokeAcquired(w))

(***************************************************************************)
(* Properties.                                                             *)
(***************************************************************************)
\* Between guard acquisition and guard release: planning, connecting or
\* dispatching.
InCycle(w) == wpc[w] \in {"planning", "connecting", "dispatching"}

\* The invocation got past the guard and built its actions.
Planned(w) == wpc[w] \in {"connecting", "dispatching", "returned"} /\ touched[w]

PlannedPairs(its) == {PairOf(its[i]) : i \in 1..Len(its)}

\* C1 (mutual exclusion of cycles): at every moment at most one invocation is
\* between guard acquisition and guard release.
C1_MutualExclusion ==
  \A v \in Workers : \A w \in Workers :
    v # w => ~(InCycle(v) /\ InCycle(w))

\* An invocation was turned away while another one was planning.
C1_Witness ==
  \E v \in Workers : \E w \in Workers :
    /\ v # w
    /\ wpc[v] = "planning"
    /\ lock = v
    /\ wpc[w] = "returned"
    /\ ret[w] = StillRunning(w)

\* Every pair of an eligible agent and one of its tasks is SYNCED in store st.
AllSynced(st) ==
  \A p \in Pairs :
    (Eligible(p[1]) /\ p[2] \in st.tasks) => st.results[p] = <<SYNCED>>

\* C6 (idempotence of no-op): a SYNCED pair is never planned, and a cycle that
\* begins with every pair of an eligible agent SYNCED plans nothing, issues no
\* remote call and leaves every Task and TaskResult as it was, however often
\* it is run.
C6_NoOpIdempotent ==
  /\ \A p \in Pairs :
       results[p] = <<SYNCED>> => p \notin PlannedPairs(Plan(tasks, results))
  /\ \A w \in Workers : \A p \in Pairs :
       (Planned(w) /\ snap[w].results[p] = <<SYNCED>>)
         => p \notin PlannedPairs(items[w])
  /\ \A w \in Workers :
       (Planned(w) /\ AllSynced(snap[w]))
         => /\ items[w] = <<>>
            /\ calls[w] = NoCalls
            /\ Store = snap[w]

\* A cycle over three SYNCED pairs of two eligible agents connected and
\* returned.
C6_Witness ==
  \E w \in Workers :
    /\ wpc[w] = "returned"
    /\ ret[w] = RetOk
    /\ opened[w] = "yes"
    /\ touched[w]
    /\ Eligible("a1") /\ Eligible("a2")
    /\ snap[w].tasks = Tasks
    /\ AllSynced(snap[w])

\* The versions of the model that are at least 1.6.0, and at least 2.6.0.
AtLeast160 == {V160, V1100, V259, V260}

AtLeast260 == {V260}

\* The gates an (agent, task) pair has to pass.
GateOK(a, t) ==
  /\ agent[a].status = AGENT_STATUS_ONLINE
  /\ ~agent[a].is_posix
  /\ agent[a].version \in AtLeast160
  /\ taskType[t] = ONBOARDING => agent[a].version \in AtLeast260

\* C7 (capability gating): an item is planned, and a remote call issued, only
\* for an agent that is online, not POSIX and at least 1.6.0 (as versions, not
\* as strings), and at least 2.6.0 when the task is an onboarding task; and a
\* pair that passes the gates and is not SYNCED is planned (2.6.0 included).
C7_CapabilityGating ==
  /\ \A p \in PlannedPairs(Plan(tasks, results)) : GateOK(p[1], p[2])
  /\ \A w \in Workers : \A p \in PlannedPairs(items[w]) : GateOK(p[1], p[2])
  /\ \A w \in Workers : \A p \in Pairs : calls[w][p] > 0 => GateOK(p[1], p[2])
  /\ \A p \in Pairs :
       (GateOK(p[1], p[2]) /\ p[2] \in tasks /\ results[p] # <<SYNCED>>)
         => p \in PlannedPairs(Plan(tasks, results))

\* The 1.10.0 agent was sent a remote call while the onboarding task of the
\* 2.5.9 agent, not SYNCED, was left out of the plan.
C7_Witness ==
  \E w \in Workers :
    /\ wpc[w] = "dispatching"
    /\ agent["a2"].version = V1100
    /\ calls[w][<<"a2", "t1">>] > 0
    /\ agent["a1"].version = V259
    /\ taskType["t2"] = ONBOARDING
    /\ snap[w].results[<<"a1", "t2">>] = <<INITIAL>>
    /\ <<"a1", "t2">> \notin PlannedPairs(items[w])
    /\ <<"a1", "t1">> \in PlannedPairs(items[w])

\* C8 (contention is a no-op): an invocation that finds the guard held returns
\* "<owner> still running" at once: it reads and writes no Task or TaskResult,
\* does not connect, issues no remote call and tries the guard once.
C8_ContentionNoOp ==
  [][\A w \in Workers :
       (wpc[w] = "idle" /\ lock # NoWorker /\ wpc'[w] # "idle")
         => /\ wpc'[w] = "returned"
            /\ ret'[w] = [kind |-> "still running", owner |-> w]
            /\ tries'[w] = 1
            /\ ~touched'[w]
            /\ opened'[w] = "no"
            /\ calls'[w] = NoCalls
            /\ items'[w] = <<>>
            /\ UNCHANGED <<tasks, results, lock>>]_vars

\* An invocation was turned away while the holder's remote call was
\* outstanding.
C8_Witness ==
  \E v \in Workers : \E w \in Workers :
    /\ v # w
    /\ wpc[v] = "dispatching"
    /\ \E i \in ItemIdx(v) : items[v][i].pc = "call"
    /\ wpc[w] = "returned"
    /\ ret[w] = StillRunning(w)
    /\ tries[w] = 1

\* C10 (transport-connect failure): when nats.connect fails, no remote call is
\* issued, no coroutine starts, and every Task and TaskResult (a missing
\* TaskResult included) is as it was when the cycle began.
C10_ConnectFailureNoEffect ==
  \A w \in Workers :
    (wpc[w] = "returned" /\ opened[w] = "failed")
      => /\ calls[w] = NoCalls
         /\ \A i \in ItemIdx(w) : items[w][i].pc = "getTask"
         /\ Store = snap[w]

\* A cycle that had planned two items, one of them the create of a pair with
\* no TaskResult, failed to connect.
C10_Witness ==
  \E w \in Workers :
    /\ wpc[w] = "returned"
    /\ opened[w] = "failed"
    /\ Len(items[w]) >= 2
    /\ \E i \in ItemIdx(w) :
         items[w][i].op = "create" /\ results[PairOf(items[w][i])] = <<>>

\* C9 (guaranteed guard release): the guard is held only by an invocation that
\* is inside its cycle, never by one that has returned or raised; the guard
\* changes hands only by the holder leaving its cycle, so an invocation that
\* did not acquire it never releases it; and every holder eventually releases
\* it, whether the cycle completes, fails to connect or raises.
C9_GuardReleased ==
  /\ [](\A w \in Workers : lock = w => InCycle(w))
  /\ [](\A w \in Workers : InCycle(w) => lock = w)
  /\ [][lock # NoWorker /\ lock' # lock
          => /\ lock' = NoWorker
             /\ InCycle(lock)
             /\ wpc'[lock] = "returned"]_vars
  /\ \A w \in Workers : (lock = w) ~> (lock # w)

\* A cycle was aborted by an exception of one coroutine, with another one
\* cancelled, and the guard is free.
C9_Witness ==
  \E w \in Workers :
    /\ wpc[w] = "returned"
    /\ ret[w] = RetRaised
    /\ \E i \in ItemIdx(w) : items[w][i].pc = "cancelled"
    /\ lock = NoWorker

\* The cycle of w has ended: it returned or raised after planning.
CycleEnded(w) == wpc[w] = "returned" /\ touched[w]

\* The plan of the next cycle, from the rows as they are, holds op for pair p.
PlannedNext(op, p) ==
  \E i \in 1..Len(Plan(tasks, results)) :
    Plan(tasks, results)[i].op = op /\ PairOf(Plan(tasks, results)[i]) = p

\* C2 (convergence under success): when a cycle has ended, every create or
\* modify item of it whose remote call returned "ok" has its pair's TaskResult
\* SYNCED.
C2_SyncedAfterOk ==
  \A w \in Workers : \A i \in ItemIdx(w) :
    (/\ CycleEnded(w)
     /\ items[w][i].op \in {"create", "modify"}
     /\ items[w][i].resp = RespOk)
      => results[PairOf(items[w][i])] = <<SYNCED>>

\* C3 (safe retry under failure): when a cycle has ended, every create or
\* modify item of it whose remote call returned something other than "ok" has
\* its pair at INITIAL (create) or NOT_SYNCED (modify), and the next plan
\* holds the same operation for the pair.
C3_RetryAfterFailure ==
  \A w \in Workers : \A i \in ItemIdx(w) :
    (/\ CycleEnded(w)
     /\ items[w][i].op \in {"create", "modify"}
     /\ items[w][i].resp \notin {"none", RespOk})
      => /\ results[PairOf(items[w][i])] =
              <<IF items[w][i].op = "create" THEN INITIAL ELSE NOT_SYNCED>>
         /\ PlannedNext(items[w][i].op, PairOf(items[w][i]))

\* C4 (delete convergence): when a cycle has ended, every delete item of it
\* whose remote call returned "ok" or the not-found error has neither its
\* TaskResult nor its Task left.
C4_DeletedAfterConfirm ==
  \A w \in Workers : \A i \in ItemIdx(w) :
    (/\ CycleEnded(w)
     /\ items[w][i].op = "delete"
     /\ items[w][i].resp \in {RespOk, RespNotFound})
      => /\ items[w][i].task \notin tasks
         /\ results[PairOf(items[w][i])] = <<>>

\* C5 (delete retry): when a cycle has ended, every delete item of it whose
\* remote call failed otherwise still has its Task and its TaskResult, at
\* PENDING_DELETION, and the next plan holds the delete of the pair again,
\* whether the status write landed or raised.
C5_DeleteRetried ==
  \A w \in Workers : \A i \in ItemIdx(w) :
    (/\ CycleEnded(w)
     /\ items[w][i].op = "delete"
     /\ items[w][i].resp = RespTimeout)
      => /\ items[w][i].task \in tasks
         /\ results[PairOf(items[w][i])] = <<PENDING_DELETION>>
         /\ PlannedNext("delete", PairOf(items[w][i]))

\* C11 (return value): an invocation returns "<owner> still running" exactly
\* when the guard was not acquired, the connect error message exactly when the
\* guard was acquired and nats.connect failed, and "ok" only when the guard was
\* acquired, the transport connected and dispatch ran.
C11_ReturnValue ==
  \A w \in Workers :
    wpc[w] = "returned"
      => /\ (ret[w] = [kind |-> "still running", owner |-> w]) <=> ~touched[w]
         /\ (ret[w].kind = "connect error")
              <=> (touched[w] /\ opened[w] = "failed")
         /\ (ret[w].kind = "ok") => (touched[w] /\ opened[w] = "yes")

\* C12 (item isolation): when a cycle that connected has ended, every item of
\* it ran to its end or failed by itself: none was stopped, before its remote
\* call or before its write, by the failure of another item.
C12_ItemIsolation ==
  \A w \in Workers : \A i \in ItemIdx(w) :
    (CycleEnded(w) /\ opened[w] = "yes") => items[w][i].pc \in {"done", "raised"}

\* C15 (exactly-once dispatch): when a cycle that connected has ended, each of
\* its items issued exactly one remote call; and a cycle issues no call for a
\* pair that was SYNCED when the cycle began.
C15_ExactlyOnce ==
  /\ \A w \in Workers : \A i \in ItemIdx(w) :
       (CycleEnded(w) /\ opened[w] = "yes")
         => calls[w][PairOf(items[w][i])] = 1
  /\ \A w \in Workers : \A p \in Pairs :
       snap[w].results[p] = <<SYNCED>> => calls[w][p] = 0

\* Every pair that passes the gates and whose Task exists is SYNCED.
Converged ==
  \A p \in Pairs :
    (GateOK(p[1], p[2]) /\ p[2] \in tasks) => results[p] = <<SYNCED>>

\* C13 (eventual convergence): with cycles recurring, the agent eligible, no
\* operator at work and remote calls answering "ok", every pair that is
\* INITIAL, without TaskResult or NOT_SYNCED eventually is SYNCED, every pair
\* that is PENDING_DELETION eventually is removed with its Task, and once all
\* pairs are SYNCED they stay so.
C13_EventualConvergence ==
  /\ \A p \in Pairs :
       (/\ GateOK(p[1], p[2])
        /\ p[2] \in tasks
        /\ results[p] \in {<<>>, <<INITIAL>>, <<NOT_SYNCED>>})
         ~> (results[p] = <<SYNCED>>)
  /\ \A p \in Pairs :
       (GateOK(p[1], p[2]) /\ results[p] = <<PENDING_DELETION>>)
         ~> (results[p] = <<>> /\ p[2] \notin tasks)
  /\ [][Converged => Converged']_vars

\* The operation the planner is to choose for the rows of a pair.
OpFor(rows) ==
  IF rows = <<>> \/ rows = <<INITIAL>> THEN "create"
  ELSE IF rows = <<PENDING_DELETION>> THEN "delete"
  ELSE IF rows = <<NOT_SYNCED>> THEN "modify"
  ELSE "none"

\* The operations of the items that the plan its holds for pair p.
OpsIn(its, p) == {its[i].op : i \in {j \in 1..Len(its) : PairOf(its[j]) = p}}

\* The plan its holds, for every pair that passes the gates in store st, one
\* item with the operation of the pair's status, or none when it is SYNCED,
\* and no two items for one pair.
PlanMatches(its, st) ==
  /\ \A i \in 1..Len(its) : \A j \in 1..Len(its) :
       PairOf(its[i]) = PairOf(its[j]) => i = j
  /\ \A p \in Pairs :
       (GateOK(p[1], p[2]) /\ p[2] \in st.tasks)
         => OpsIn(its, p) = {OpFor(st.results[p])} \ {"none"}

\* C14 (planner classification): the plan holds at most one item per pair, its
\* operation decided by the pair's persisted status alone (create for none or
\* INITIAL, delete for PENDING_DELETION, modify for NOT_SYNCED, nothing for
\* SYNCED); the planner writes nothing and is done before the first remote
\* call of the cycle.
C14_PlannerClassification ==
  /\ PlanMatches(Plan(tasks, results), Store)
  /\ \A w \in Workers : Planned(w) => PlanMatches(items[w], snap[w])
  /\ \A w \in Workers :
       wpc[w] \in {"planning", "connecting"}
         => /\ calls[w] = NoCalls
            /\ Store = snap[w]
            /\ \A i \in ItemIdx(w) : items[w][i].pc = "getTask"

\* The planner has built a plan of a create, a delete and a modify, one for
\* each of three pairs, and no call has been issued.
C14_Witness ==
  \E w \in Workers :
    /\ wpc[w] = "connecting"
    /\ Len(items[w]) = 3
    /\ {items[w][i].op : i \in ItemIdx(w)} = {"create", "delete", "modify"}
    /\ results[<<"a1", "t1">>] = <<NOT_SYNCED>>
    /\ results[<<"a2", "t1">>] = <<PENDING_DELETION>>
    /\ calls[w] = NoCalls

\* The status an item is to record for the response r of its remote call.
OutcomeOf(op, r) ==
  IF r = "ok" THEN SYNCED
  ELSE IF op = "create" THEN INITIAL
  ELSE IF op = "modify" THEN NOT_SYNCED
  ELSE PENDING_DELETION

\* C20 (within-item ordering, no in-flight status): an item fetches or creates
\* its TaskResult before its remote call and writes after the call returned;
\* the rows of a pair change only by the creation of the missing row as
\* INITIAL before the call, by the write of the outcome of a returned call, or
\* by the removal after a confirmed delete; SYNCED is written only after "ok".
C20_WithinItemOrdering ==
  /\ [](\A w \in Workers : \A i \in ItemIdx(w) :
         LET it == items[w][i] IN
         /\ it.pc \in {"getTask", "getResult", "createResult"}
              => (calls[w][PairOf(it)] = 0 /\ it.resp = "none" /\ it.h = 0)
         /\ it.pc = "call"
              => (calls[w][PairOf(it)] = 1 /\ it.resp = "none" /\ it.h >= 1)
         /\ it.pc \in {"save", "delete", "done"}
              => (calls[w][PairOf(it)] = 1 /\ it.resp # "none" /\ it.h >= 1))
  /\ [][\A p \in Pairs :
          results'[p] # results[p]
            => \E w \in Workers : \E i \in ItemIdx(w) :
                 LET it == items[w][i] IN
                 \/ /\ PairOf(it) = p
                    /\ it.pc = "createResult"
                    /\ results[p] = <<>>
                    /\ results'[p] = <<INITIAL>>
                 \/ /\ PairOf(it) = p
                    /\ it.pc = "save"
                    /\ it.resp # "none"
                    /\ results'[p] = <<OutcomeOf(it.op, it.resp)>>
                 \/ /\ it.task = p[2]
                    /\ it.pc = "delete"
                    /\ it.resp \in {"ok", RespNotFound}
                    /\ results'[p] = <<>>]_vars

\* One item has recorded SYNCED after "ok" while the remote call of another
\* is outstanding, its pair at the status it had when the cycle began.
C20_Witness ==
  \E w \in Workers : \E i \in ItemIdx(w) : \E j \in ItemIdx(w) :
    /\ wpc[w] = "dispatching"
    /\ items[w][i].pc = "done"
    /\ items[w][i].resp = RespOk
    /\ results[PairOf(items[w][i])] = <<SYNCED>>
    /\ items[w][j].pc = "call"
    /\ items[w][j].op = "modify"
    /\ results[PairOf(items[w][j])] = <<NOT_SYNCED>>

\* C16 (no lost operator update): a status an operator wrote after a plan was
\* computed stays as written until the next plan is computed (the running
\* cycle writes no status over it), and the next plan holds modify for a pair
\* marked NOT_SYNCED and delete for a pair marked PENDING_DELETION.
C16_NoLostOperatorUpdate ==
  \A p \in Pairs :
    opWrote[p] # "none"
      => /\ results[p] = <<opWrote[p]>>
         /\ GateOK(p[1], p[2])
              => PlannedNext(IF opWrote[p] = NOT_SYNCED THEN "modify"
                             ELSE "delete", p)

\* C17 (fresh descriptor at dispatch): the payload of a create or modify item
\* is, when its remote call is issued, the descriptor of the task's definition
\* as it is then.
C17_FreshDescriptor ==
  [][\A w \in Workers : \A i \in ItemIdx(w) :
       (/\ i \in 1..Len(items'[w])
        /\ items[w][i].op \in {"create", "modify"}
        /\ items[w][i].pc # "call"
        /\ items'[w][i].pc = "call")
         => items'[w][i].payload = defn[items[w][i].task]]_vars

\* The delete of pair p was confirmed by its agent in a running cycle.
DeleteConfirmed(p) ==
  \E w \in Workers : \E i \in ItemIdx(w) :
    /\ PairOf(items[w][i]) = p
    /\ items[w][i].op = "delete"
    /\ items[w][i].resp \in {"ok", RespNotFound}

\* C18 (task deletion only after confirmed remote deletion): a Task is removed
\* only after a remote delete for it was confirmed, and not while a pair of it
\* that is PENDING_DELETION on another agent has its delete unconfirmed.
C18_DeleteOnlyAfterConfirmed ==
  [][\A t \in Tasks :
       (t \in tasks /\ t \notin tasks')
         => /\ \E p \in PairsOf(t) : DeleteConfirmed(p)
            /\ \A p \in PairsOf(t) :
                 results[p] = <<PENDING_DELETION>> => DeleteConfirmed(p)]_vars

\* The operation of item it is recorded as successful: its pair is SYNCED, or
\* removed with its Task.
Recorded(it) ==
  IF it.op = "delete"
  THEN it.task \notin tasks /\ results[PairOf(it)] = <<>>
  ELSE results[PairOf(it)] = <<SYNCED>>

\* C19 (re-entrancy after interruption): every persisted status is one of the
\* four, and after a cycle that was interrupted the next plan holds every item
\* of it that is not recorded as successful, with the same operation, and no
\* pair recorded SYNCED or removed.
C19_ReentrantAfterInterruption ==
  /\ \A p \in Pairs : \A k \in 1..Len(results[p]) : results[p][k] \in SyncStatuses
  /\ \A w \in Workers : \A i \in ItemIdx(w) :
       (wpc[w] = "returned" /\ ret[w] = [kind |-> "raised", owner |-> "-"])
         => IF Recorded(items[w][i])
            THEN PairOf(items[w][i]) \notin PlannedPairs(Plan(tasks, results))
            ELSE PlannedNext(items[w][i].op, PairOf(items[w][i]))

\* C21 (TaskResult uniqueness): after any sequence of guarded cycles, with any
\* interleaving of the items of a cycle, a pair has at most one TaskResult; a
\* row is created only for a pair that has none, and it starts INITIAL.
C21_TaskResultUnique ==
  /\ [](\A p \in Pairs : Len(results[p]) <= 1)
  /\ [][\A p \in Pairs :
          Len(results'[p]) > Len(results[p])
            => (results[p] = <<>> /\ results'[p] = <<"initial">>)]_vars

\* Two coroutines of one cycle have each created the missing TaskResult of
\* their pair and have their remote calls outstanding, while an invocation on
\* the other worker was turned away.
C21_Witness ==
  \E w \in Workers : \E v \in Workers :
    \E i \in ItemIdx(w) : \E j \in ItemIdx(w) :
      /\ v # w
      /\ i # j
      /\ wpc[w] = "dispatching"
      /\ wpc[v] = "returned"
      /\ items[w][i].pc = "call"
      /\ items[w][j].pc = "call"
      /\ snap[w].results[PairOf(items[w][i])] = <<>>
      /\ snap[w].results[PairOf(items[w][j])] = <<>>
      /\ results[PairOf(items[w][i])] = <<INITIAL>>
      /\ results[PairOf(items[w][j])] = <<INITIAL>>
====
